---- MODULE Spec2Model ----
(***************************************************************************)
(* Model of the flight-simulator engine (internal/sim/engine.go): the      *)
(* actor loop of Engine.Run, the callers' operations Submit, GetState and  *)
(* Subscribe/unsubscribe, and the environment effects of internal/env.     *)
(*                                                                         *)
(* Numbers: the code computes in float64.  The model computes in integers  *)
(* (metres, metres per second, seconds) and draws its inputs so that every *)
(* value the code would compute is an integer: targets lie on the east     *)
(* axis through the origin, speeds and elapsed times are whole numbers.    *)
(* Geodetic coordinates are counted in units of 1/111320 degree.           *)
(***************************************************************************)
EXTENDS Integers, Sequences, FiniteSets, TLC

(***************************************************************************)
(* Bounds of the model.                                                    *)
(***************************************************************************)
\* capacity of cmdCh in the model (128 in New)
CmdCap == 1
\* capacity of stateReqCh, subscribeCh and unsubCh in the model (32 in New)
ReqCap == 1
\* capacity of a subscriber channel in the model (32 in Subscribe)
SubCap == 2
\* number of GetState calls
NumReqs == 2
\* number of Submit calls
NumCmds == 2
\* the ticker's clock runs from 0 to MaxNow
MaxNow == 1
\* the aircraft is followed while |x| <= MaxX (metres east of the origin)
MaxX == 250
\* chains applied directly have up to MaxChain effects
MaxChain == 2

\* the Subscribe calls (one fresh channel each)
Chans == {1, 2}
Reqs == 1..NumReqs

(***************************************************************************)
(* Tuning constants of Engine.Run.                                         *)
(***************************************************************************)
posTolM == 25
altTolM == 10
defaultSpeed == 80
maxClimbRate == 8
maxHorizAccel == 12
maxVertAccel == 5
\* start altitude
StartAlt == 1000
\* Config.TickHz of the modelled engine: one tick per second
tickHz == 1

(***************************************************************************)
(* GeoRef (commands.go): origin (0, 0); one unit of latitude or longitude  *)
(* is 1/111320 degree, so that metersPerDegLat metres are UnitsPerDeg      *)
(* units and cos(OriginLat) = 1.                                           *)
(***************************************************************************)
metersPerDegLat == 111320
\* units of latitude and longitude in one degree
UnitsPerDeg == metersPerDegLat
OriginLat == 0
OriginLon == 0
metersPerDegLon == metersPerDegLat

Vec3(x, y, z) == [X |-> x, Y |-> y, Z |-> z]
Zero3 == Vec3(0, 0, 0)

Add(v, o) == Vec3(v.X + o.X, v.Y + o.Y, v.Z + o.Z)

Dot(v, o) == v.X * o.X + v.Y * o.Y + v.Z * o.Z

\* Norm returns the dot product of the vector with itself (no square root)
Norm(v) == Dot(v, v)

\* resolution of a fractional component: UnitScale stands for 1.0
UnitScale == 1000

\* Normalize: v.Mul(1 / norm), components in 1/UnitScale, rounded toward
\* zero; the zero vector when norm = 0
Normalize(v) ==
    IF Norm(v) = 0 THEN Zero3
    ELSE LET q(c) == IF c >= 0 THEN (c * UnitScale) \div Norm(v)
                     ELSE -(((-c) * UnitScale) \div Norm(v))
         IN  Vec3(q(v.X), q(v.Y), q(v.Z))

GeoToLocal(lat, lon, alt) ==
    Vec3(((lon - OriginLon) * metersPerDegLon) \div UnitsPerDeg,
         ((lat - OriginLat) * metersPerDegLat) \div UnitsPerDeg,
         alt)

LocalToGeo(p) ==
    [lat |-> OriginLat + (p.Y * UnitsPerDeg) \div metersPerDegLat,
     lon |-> OriginLon + (p.X * UnitsPerDeg) \div metersPerDegLon,
     alt |-> p.Z]

Abs(n) == IF n < 0 THEN -n ELSE n

\* math.Sqrt on the integers: the largest r with r*r <= n
RECURSIVE SqrtFrom(_, _)
SqrtFrom(n, r) == IF (r + 1) * (r + 1) > n THEN r ELSE SqrtFrom(n, r + 1)

ISqrt(n) == SqrtFrom(n, 0)

\* math.Sqrt(a.X*a.X + a.Y*a.Y); on an axis the root is the other component
dist2D(a) ==
    IF a.Y = 0 THEN Abs(a.X)
    ELSE IF a.X = 0 THEN Abs(a.Y)
    ELSE ISqrt(a.X * a.X + a.Y * a.Y)

(***************************************************************************)
(* Commands (commands.go).  NoCmd is the nil Command.                      *)
(***************************************************************************)
CmdGoTo == "goto"
CmdTrajectory == "trajectory"
CmdHold == "hold"
CmdStop == "stop"

NoCmd == [type |-> "nil"]
StopCommand == [type |-> CmdStop]
HoldCommand == [type |-> CmdHold]
GoToCommand(lat, lon, alt, speed) ==
    [type |-> CmdGoTo, Lat |-> lat, Lon |-> lon, Alt |-> alt, Speed |-> speed]
Waypoint(lat, lon, alt, speed) ==
    [Lat |-> lat, Lon |-> lon, Alt |-> alt, Speed |-> speed]
TrajectoryCommand(wps, loop) ==
    [type |-> CmdTrajectory, Waypoints |-> wps, Loop |-> loop]

(***************************************************************************)
(* Environment effects (internal/env).  NoEnv is the nil Environment; a    *)
(* Chain is the sequence of its effects.                                   *)
(***************************************************************************)
NoEnv == <<>>
Wind(wx, wy) == [kind |-> "wind", Wx |-> wx, Wy |-> wy]
NoWarning == ""

\* a wind that is added to the velocity as well
WindApplyIntoVelocity(w, dt, p, v) ==
    [pos |-> Add(p, Vec3(w.Wx * dt, w.Wy * dt, 0)),
     vel |-> Add(v, Vec3(w.Wx, w.Wy, 0)), warning |-> NoWarning]

WindApply(w, dt, p, v) ==
    LET drift == Vec3(w.Wx * dt, w.Wy * dt, 0)
    IN  [pos |-> Add(p, drift), vel |-> v, warning |-> NoWarning]

Terrain(margin) == [kind |-> "terrain", SafetyMarginM |-> margin]
\* env.NoOp
NoOp == [kind |-> "noop"]
TerrainWarning == "terrain-floor: altitude clipped to safety margin"

\* math.Sin(num/den) * amp on the integers, by the series of the sine up to
\* the cubic term (exact to a metre for |num/den| <= 1)
SinTimes(amp, num, den) ==
    (amp * num) \div den
        - (amp * num * ((num * num) \div den)) \div (6 * den * den)

\* Terrain.GroundAltitude: two sine waves over the position
GroundAltitude(p) ==
    SinTimes(100, p.X, 1000) + SinTimes(50, p.X + p.Y, 500)

\* a terrain that clips the altitude and leaves the descent rate
TerrainApplyKeepsDescent(t, dt, p, v) ==
    IF p.Z < GroundAltitude(p) + t.SafetyMarginM
    THEN [pos |-> Vec3(p.X, p.Y, GroundAltitude(p) + t.SafetyMarginM),
          vel |-> v, warning |-> TerrainWarning]
    ELSE [pos |-> p, vel |-> v, warning |-> NoWarning]

TerrainApply(t, dt, p, v) ==
    LET minAllowedAlt == GroundAltitude(p) + t.SafetyMarginM
    IN  IF p.Z < minAllowedAlt
        THEN [pos |-> Vec3(p.X, p.Y, minAllowedAlt),
              vel |-> IF v.Z < 0 THEN Vec3(v.X, v.Y, 0) ELSE v,
              warning |-> TerrainWarning]
        ELSE [pos |-> p, vel |-> v, warning |-> NoWarning]

\* an Environment given by what its Apply returns: the position and the
\* velocity it was handed, and the warning text
Warner(text) == [kind |-> "warner", Text |-> text]

\* effect.Apply, by the dynamic type of the effect
EffectApply(e, dt, p, v) ==
    IF e.kind = "wind" THEN WindApply(e, dt, p, v)
    ELSE IF e.kind = "terrain" THEN TerrainApply(e, dt, p, v)
    ELSE IF e.kind = "warner" THEN [pos |-> p, vel |-> v, warning |-> e.Text]
    ELSE [pos |-> p, vel |-> v, warning |-> NoWarning]

\* a chain that keeps the first warning it meets
RECURSIVE ChainFromFirstWarning(_, _, _, _, _, _)
ChainFromFirstWarning(effects, i, dt, p, v, warning) ==
    IF i > Len(effects) THEN [pos |-> p, vel |-> v, warning |-> warning]
    ELSE LET r == EffectApply(effects[i], dt, p, v)
         IN  ChainFromFirstWarning(effects, i + 1, dt, r.pos, r.vel,
                 IF warning = NoWarning THEN r.warning ELSE warning)

RECURSIVE ChainFrom(_, _, _, _, _, _)
ChainFrom(effects, i, dt, p, v, warning) ==
    IF i > Len(effects) THEN [pos |-> p, vel |-> v, warning |-> warning]
    ELSE LET r == EffectApply(effects[i], dt, p, v)
         IN  ChainFrom(effects, i + 1, dt, r.pos, r.vel,
                       IF r.warning # NoWarning THEN r.warning ELSE warning)

ChainApply(effects, dt, p, v) == ChainFrom(effects, 1, dt, p, v, NoWarning)

(***************************************************************************)
(* The control law of Engine.Run, as functions of the actor's state.       *)
(***************************************************************************)
\* normalize2D(v) scaled by speed: the components dir.X * speed, dir.Y * speed
scaled2D(v, speed) ==
    LET n == dist2D(v)
    IN  IF n = 0 THEN Zero3
        ELSE Vec3((v.X * speed) \div n, (v.Y * speed) \div n, 0)

computeDesiredVel(p, target, speed) ==
    LET delta == Vec3(target.X - p.X, target.Y - p.Y, target.Z - p.Z)
        horiz == Vec3(delta.X, delta.Y, 0)
        hDist == dist2D(horiz)
        dir   == IF hDist > posTolM THEN scaled2D(horiz, speed) ELSE Zero3
        dz    == IF delta.Z > altTolM THEN maxClimbRate
                 ELSE IF delta.Z < -altTolM THEN -maxClimbRate
                 ELSE 0
    IN  Vec3(dir.X, dir.Y, dz)

\* a smoothing step with no limit on the change
approachUncapped(cur, des, amax, dt) == des

approach(cur, des, amax, dt) ==
    LET diff == des - cur
        maxStep == amax * dt
    IN  IF diff > maxStep THEN cur + maxStep
        ELSE IF diff < -maxStep THEN cur - maxStep
        ELSE des

approachVel(cur, des, dt) ==
    Vec3(approach(cur.X, des.X, maxHorizAccel, dt),
         approach(cur.Y, des.Y, maxHorizAccel, dt),
         approach(cur.Z, des.Z, maxVertAccel, dt))

\* an arrival check on the horizontal distance alone
arrivedHorizOnly(p, target) ==
    dist2D(Vec3(target.X - p.X, target.Y - p.Y, 0)) <= posTolM

\* the arrival check of the GoTo and Trajectory cases
arrived(p, target) ==
    LET d == Vec3(target.X - p.X, target.Y - p.Y, target.Z - p.Z)
    IN  dist2D(Vec3(d.X, d.Y, 0)) <= posTolM /\ Abs(d.Z) <= altTolM

\* the commanded speed taken as it is, non-positive or not
effSpeedAsGiven(speed) == speed

effSpeed(speed) == IF speed <= 0 THEN defaultSpeed ELSE speed

Max(a, b) == IF a >= b THEN a ELSE b

\* the speed a tick hands to computeDesiredVel: that of the active GoTo or
\* of the waypoint at the index, the default put in; 0 when the tick
\* steers to no target
tickSpeed(act, tr, idx) ==
    IF act.type = CmdGoTo THEN effSpeed(act.Speed)
    ELSE IF act.type = CmdTrajectory /\ Len(tr) # 0 /\ idx >= 0 /\ idx < Len(tr)
    THEN effSpeed(tr[idx + 1].Speed)
    ELSE 0

\* the GoToCommand case of the tick: desired velocity and the active command
goToTick(c, idx, p) ==
    LET target == GeoToLocal(c.Lat, c.Lon, c.Alt)
        speed  == effSpeed(c.Speed)
    IN  IF arrived(p, target)
        THEN [active |-> NoCmd, trajIdx |-> idx, desired |-> Zero3]
        ELSE [active |-> c, trajIdx |-> idx,
              desired |-> computeDesiredVel(p, target, speed)]

\* a trajectory tick that ignores the loop flag at the last waypoint
trajectoryTickNoWrap(c, tr, idx, loop, p) ==
    IF Len(tr) = 0 \/ idx < 0 \/ idx >= Len(tr)
    THEN [active |-> NoCmd, trajIdx |-> idx, desired |-> Zero3]
    ELSE LET wp     == tr[idx + 1]
             target == GeoToLocal(wp.Lat, wp.Lon, wp.Alt)
             des    == computeDesiredVel(p, target, effSpeed(wp.Speed))
         IN  IF arrived(p, target)
             THEN IF idx + 1 >= Len(tr)
                  THEN [active |-> NoCmd, trajIdx |-> idx + 1,
                        desired |-> Zero3]
                  ELSE [active |-> c, trajIdx |-> idx + 1, desired |-> des]
             ELSE [active |-> c, trajIdx |-> idx, desired |-> des]

\* a trajectory tick that leaves the overrun to the next tick's index guard
trajectoryTickLateClear(c, tr, idx, loop, p) ==
    IF Len(tr) = 0 \/ idx < 0 \/ idx >= Len(tr)
    THEN [active |-> NoCmd, trajIdx |-> idx, desired |-> Zero3]
    ELSE LET wp     == tr[idx + 1]
             target == GeoToLocal(wp.Lat, wp.Lon, wp.Alt)
             des    == computeDesiredVel(p, target, effSpeed(wp.Speed))
         IN  IF arrived(p, target)
             THEN [active |-> c,
                   trajIdx |-> IF idx + 1 >= Len(tr) /\ loop THEN 0
                               ELSE idx + 1,
                   desired |-> des]
             ELSE [active |-> c, trajIdx |-> idx, desired |-> des]

\* a trajectory tick whose guard misses the empty waypoint list: nothing is
\* cleared there
trajectoryTickNoGuard(c, tr, idx, loop, p) ==
    IF Len(tr) = 0
    THEN [active |-> c, trajIdx |-> idx, desired |-> Zero3]
    ELSE LET wp     == tr[idx + 1]
             target == GeoToLocal(wp.Lat, wp.Lon, wp.Alt)
             des    == computeDesiredVel(p, target, effSpeed(wp.Speed))
         IN  IF ~arrived(p, target)
             THEN [active |-> c, trajIdx |-> idx, desired |-> des]
             ELSE IF idx + 1 < Len(tr)
             THEN [active |-> c, trajIdx |-> idx + 1, desired |-> des]
             ELSE IF loop
             THEN [active |-> c, trajIdx |-> 0, desired |-> des]
             ELSE [active |-> NoCmd, trajIdx |-> idx + 1, desired |-> Zero3]

\* the TrajectoryCommand case of the tick
trajectoryTick(c, tr, idx, loop, p) ==
    IF Len(tr) = 0 \/ idx < 0 \/ idx >= Len(tr)
    THEN [active |-> NoCmd, trajIdx |-> idx, desired |-> Zero3]
    ELSE LET wp     == tr[idx + 1]
             target == GeoToLocal(wp.Lat, wp.Lon, wp.Alt)
             speed  == effSpeed(wp.Speed)
             des    == computeDesiredVel(p, target, speed)
         IN  IF arrived(p, target)
             THEN IF idx + 1 >= Len(tr)
                  THEN IF loop
                       THEN [active |-> c, trajIdx |-> 0, desired |-> des]
                       ELSE [active |-> NoCmd, trajIdx |-> idx + 1,
                             desired |-> Zero3]
                  ELSE [active |-> c, trajIdx |-> idx + 1, desired |-> des]
             ELSE [active |-> c, trajIdx |-> idx, desired |-> des]

\* a tick that treats Hold as completed and clears it
desiredForHoldClears(act, tr, idx, loop, p) ==
    IF act.type = CmdGoTo THEN goToTick(act, idx, p)
    ELSE IF act.type = CmdTrajectory THEN trajectoryTick(act, tr, idx, loop, p)
    ELSE [active |-> NoCmd, trajIdx |-> idx, desired |-> Zero3]

\* "compute desired velocity from active command"
desiredFor(act, tr, idx, loop, p) ==
    IF act.type = CmdGoTo THEN goToTick(act, idx, p)
    ELSE IF act.type = CmdTrajectory THEN trajectoryTick(act, tr, idx, loop, p)
    ELSE [active |-> act, trajIdx |-> idx, desired |-> Zero3]

\* the tick's elapsed time, with the fallback to the nominal period
tickDt(elapsed) == IF elapsed <= 0 THEN 1 \div tickHz ELSE elapsed

\* the state after the tick's smoothing, environment and integration
integrate(environ, p, v, desired, dt) ==
    LET v1 == approachVel(v, desired, dt)
        e  == IF environ # NoEnv THEN ChainApply(environ, dt, p, v1)
              ELSE [pos |-> p, vel |-> v1, warning |-> NoWarning]
    IN  [pos |-> Vec3(e.pos.X + e.vel.X * dt, e.pos.Y + e.vel.Y * dt,
                      e.pos.Z + e.vel.Z * dt),
         vel |-> e.vel, warning |-> e.warning]

(***************************************************************************)
(* State.                                                                  *)
(***************************************************************************)
VARIABLES
    environment,  \* Engine.environment, fixed at construction
    ctxDone,      \* the run lifetime (Run's ctx) is cancelled
    runPc,        \* Run: "init" (not called), "running", "returned",
                  \*      "panicked", "blocked" (stuck in a handler's send)
    runErr,       \* what Run returned
    cmdCh, stateReqCh, subscribeCh, unsubCh,   \* the actor's channels
    now, pos, vel, active, traj, trajIdx, trajLoop, subs,  \* Run's locals
    chBuf,        \* chBuf[c]: the buffer of subscriber channel c
    chClosed,     \* chClosed[c]: channel c is closed
    subPc,        \* Subscribe call c: "none", "calling", "open" (returned
                  \* the channel and unsub), "cancelled" (returned the
                  \* closed channel and the empty func)
    subCtx,       \* the context of Subscribe call c is done
    unsubCalled,  \* the unsubscribe handle of call c has been called
    gsPc,         \* GetState call r: "none", "send", "wait", "ok", "err"
    gsCtx,        \* the context of GetState call r is done
    reply,        \* reply[r]: the buffer of req.reply (capacity 1)
    submitted,    \* number of Submit calls so far
    topSpeed,     \* the largest effective speed of a GoTo or waypoint that a
                  \* tick has steered to so far (0: none yet)
    last          \* the last operation or handler that ran, and its inputs

queues == <<cmdCh, stateReqCh, subscribeCh, unsubCh>>
locals == <<now, pos, vel, active, traj, trajIdx, trajLoop>>
runVars == <<ctxDone, runPc, runErr>>
chanVars == <<chBuf, chClosed>>
subVars == <<subPc, subCtx, unsubCalled>>
gsVars == <<gsPc, gsCtx, reply>>
vars == <<environment, runVars, queues, locals, subs, chanVars, subVars,
          gsVars, submitted, topSpeed, last>>

NoState == [none |-> TRUE]

buildSnapshot(p, v, act, idx, ts, warning) ==
    LET g == LocalToGeo(p)
    IN  [Lat |-> g.lat, Lon |-> g.lon, Alt |-> g.alt,
         Vx |-> v.X, Vy |-> v.Y, Vz |-> v.Z,
         TS |-> ts, Warning |-> warning, TargetIndex |-> idx,
         ActiveCommand |-> IF act # NoCmd THEN act.type ELSE ""]

\* the snapshot of the actor's current state
snapshotNow == buildSnapshot(pos, vel, active, trajIdx, now, NoWarning)

InitWith(environ) ==
    /\ environment = environ
    /\ ctxDone = FALSE /\ runPc = "init" /\ runErr = "none"
    /\ cmdCh = <<>> /\ stateReqCh = <<>> /\ subscribeCh = <<>>
    /\ unsubCh = <<>>
    /\ now = 0
    /\ pos = GeoToLocal(OriginLat, OriginLon, StartAlt)
    /\ vel = Zero3
    /\ active = NoCmd /\ traj = <<>> /\ trajIdx = 0 /\ trajLoop = FALSE
    /\ subs = {}
    /\ chBuf = [c \in Chans |-> <<>>]
    /\ chClosed = [c \in Chans |-> FALSE]
    /\ subPc = [c \in Chans |-> "none"]
    /\ subCtx = [c \in Chans |-> FALSE]
    /\ unsubCalled = [c \in Chans |-> FALSE]
    /\ gsPc = [r \in Reqs |-> "none"]
    /\ gsCtx = [r \in Reqs |-> FALSE]
    /\ reply = [r \in Reqs |-> <<>>]
    /\ submitted = 0
    /\ topSpeed = 0
    /\ last = [op |-> "New"]

(***************************************************************************)
(* Callers: Submit, GetState, Subscribe and the unsubscribe handle.        *)
(***************************************************************************)
\* a Submit that waits for room: e.cmdCh <- cmd without the default case
SubmitBlocks(cmd) ==
    /\ submitted < NumCmds
    /\ Len(cmdCh) < CmdCap
    /\ submitted' = submitted + 1
    /\ cmdCh' = Append(cmdCh, cmd)
    /\ last' = [op |-> "Submit", cmd |-> cmd, ok |-> TRUE]
    /\ UNCHANGED <<environment, topSpeed, runVars, stateReqCh, subscribeCh, unsubCh,
                   locals, subs, chanVars, subVars, gsVars>>

\* a Submit that makes room on a full queue by dropping the queued commands
SubmitOverwrite(cmd) ==
    /\ submitted < NumCmds
    /\ submitted' = submitted + 1
    /\ cmdCh' = IF Len(cmdCh) < CmdCap THEN Append(cmdCh, cmd) ELSE <<cmd>>
    /\ last' = [op |-> "Submit", cmd |-> cmd, ok |-> TRUE]
    /\ UNCHANGED <<environment, topSpeed, runVars, stateReqCh, subscribeCh, unsubCh,
                   locals, subs, chanVars, subVars, gsVars>>

\* Engine.Submit: select { case e.cmdCh <- cmd: default: }
Submit(cmd) ==
    /\ submitted < NumCmds
    /\ submitted' = submitted + 1
    /\ cmdCh' = IF Len(cmdCh) < CmdCap THEN Append(cmdCh, cmd) ELSE cmdCh
    /\ last' = [op |-> "Submit", cmd |-> cmd, ok |-> Len(cmdCh) < CmdCap]
    /\ UNCHANGED <<environment, topSpeed, runVars, stateReqCh, subscribeCh, unsubCh,
                   locals, subs, chanVars, subVars, gsVars>>

\* the caller's context (deadline or cancellation) of GetState call r fires
CancelReq(r) ==
    /\ ~gsCtx[r]
    /\ gsCtx' = [gsCtx EXCEPT ![r] = TRUE]
    /\ last' = [op |-> "CancelReq", r |-> r]
    /\ UNCHANGED <<environment, topSpeed, runVars, queues, locals, subs, chanVars,
                   subVars, gsPc, reply, submitted>>

\* GetState is called: req.reply is made
GetStateCall(r) ==
    /\ gsPc[r] = "none"
    /\ \A q \in Reqs : q < r => gsPc[q] # "none"
    /\ gsPc' = [gsPc EXCEPT ![r] = "send"]
    /\ last' = [op |-> "GetStateCall", r |-> r]
    /\ UNCHANGED <<environment, topSpeed, runVars, queues, locals, subs, chanVars,
                   subVars, gsCtx, reply, submitted>>

\* first select, case e.stateReqCh <- req
GetStateSend(r) ==
    /\ gsPc[r] = "send"
    /\ Len(stateReqCh) < ReqCap
    /\ stateReqCh' = Append(stateReqCh, r)
    /\ gsPc' = [gsPc EXCEPT ![r] = "wait"]
    /\ last' = [op |-> "GetStateSend", r |-> r]
    /\ UNCHANGED <<environment, topSpeed, runVars, cmdCh, subscribeCh, unsubCh, locals,
                   subs, chanVars, subVars, gsCtx, reply, submitted>>

\* a GetState whose first step is the plain send e.stateReqCh <- req: the
\* context is only looked at while waiting for the reply
GetStateCtxDoneWaitOnly(r) ==
    /\ gsPc[r] = "wait"
    /\ gsCtx[r]
    /\ gsPc' = [gsPc EXCEPT ![r] = "err"]
    /\ last' = [op |-> "GetStateCtxDone", r |-> r, st |-> NoState,
                err |-> "ctx", phase |-> gsPc[r]]
    /\ UNCHANGED <<environment, topSpeed, runVars, queues, locals, subs, chanVars,
                   subVars, gsCtx, reply, submitted>>

\* either select, case <-ctx.Done(): return AircraftState{}, ctx.Err()
GetStateCtxDone(r) ==
    /\ gsPc[r] \in {"send", "wait"}
    /\ gsCtx[r]
    /\ gsPc' = [gsPc EXCEPT ![r] = "err"]
    /\ last' = [op |-> "GetStateCtxDone", r |-> r, st |-> NoState,
                err |-> "ctx", phase |-> gsPc[r]]
    /\ UNCHANGED <<environment, topSpeed, runVars, queues, locals, subs, chanVars,
                   subVars, gsCtx, reply, submitted>>

\* second select, case st := <-req.reply: return st, nil
GetStateReply(r) ==
    /\ gsPc[r] = "wait"
    /\ reply[r] # <<>>
    /\ reply' = [reply EXCEPT ![r] = Tail(reply[r])]
    /\ gsPc' = [gsPc EXCEPT ![r] = "ok"]
    /\ last' = [op |-> "GetStateReply", r |-> r, st |-> Head(reply[r]),
                err |-> "nil"]
    /\ UNCHANGED <<environment, topSpeed, runVars, queues, locals, subs, chanVars,
                   subVars, gsCtx, submitted>>

\* the context of Subscribe call c is cancelled before the call returns
\* (Subscribe does not read it afterwards)
CancelSub(c) ==
    /\ ~subCtx[c]
    /\ subPc[c] \in {"none", "calling"}
    /\ subCtx' = [subCtx EXCEPT ![c] = TRUE]
    /\ last' = [op |-> "CancelSub", ch |-> c]
    /\ UNCHANGED <<environment, topSpeed, runVars, queues, locals, subs, chanVars,
                   subPc, unsubCalled, gsVars, submitted>>

\* Subscribe is called: ch := make(chan AircraftState, 32)
SubscribeCall(c) ==
    /\ subPc[c] = "none"
    /\ \A d \in Chans : d < c => subPc[d] # "none"
    /\ subPc' = [subPc EXCEPT ![c] = "calling"]
    /\ last' = [op |-> "SubscribeCall", ch |-> c]
    /\ UNCHANGED <<environment, topSpeed, runVars, queues, locals, subs, chanVars,
                   subCtx, unsubCalled, gsVars, submitted>>

\* case e.subscribeCh <- subscribeReq{ch: ch}: return ch, unsub
SubscribeSend(c) ==
    /\ subPc[c] = "calling"
    /\ Len(subscribeCh) < ReqCap
    /\ subscribeCh' = Append(subscribeCh, c)
    /\ subPc' = [subPc EXCEPT ![c] = "open"]
    /\ last' = [op |-> "SubscribeSend", ch |-> c, ctxDone |-> subCtx[c]]
    /\ UNCHANGED <<environment, topSpeed, runVars, cmdCh, stateReqCh, unsubCh, locals,
                   subs, chanVars, subCtx, unsubCalled, gsVars, submitted>>

\* case <-ctx.Done(): close(ch); return ch, func() {}
SubscribeCtxDone(c) ==
    /\ subPc[c] = "calling"
    /\ subCtx[c]
    /\ chClosed' = [chClosed EXCEPT ![c] = TRUE]
    /\ subPc' = [subPc EXCEPT ![c] = "cancelled"]
    /\ last' = [op |-> "SubscribeCtxDone", ch |-> c]
    /\ UNCHANGED <<environment, topSpeed, runVars, queues, locals, subs, chBuf,
                   subCtx, unsubCalled, gsVars, submitted>>

\* unsub(): select { case e.unsubCh <- ch: default: }
Unsub(c) ==
    /\ subPc[c] = "open"
    /\ unsubCh' = IF Len(unsubCh) < ReqCap THEN Append(unsubCh, c) ELSE unsubCh
    /\ unsubCalled' = [unsubCalled EXCEPT ![c] = TRUE]
    /\ last' = [op |-> "Unsub", ch |-> c, ok |-> Len(unsubCh) < ReqCap]
    /\ UNCHANGED <<environment, topSpeed, runVars, cmdCh, stateReqCh, subscribeCh,
                   locals, subs, chanVars, subPc, subCtx, gsVars, submitted>>

\* the handle returned with the closed channel: func() {}
UnsubNoop(c) ==
    /\ subPc[c] = "cancelled"
    /\ unsubCalled' = [unsubCalled EXCEPT ![c] = TRUE]
    /\ last' = [op |-> "UnsubNoop", ch |-> c]
    /\ UNCHANGED <<environment, topSpeed, runVars, queues, locals, subs, chanVars,
                   subPc, subCtx, gsVars, submitted>>

\* the consumer of channel c receives a frame: st, ok := <-ch with ok
Recv(c) ==
    /\ subPc[c] = "open"
    /\ chBuf[c] # <<>>
    /\ chBuf' = [chBuf EXCEPT ![c] = Tail(chBuf[c])]
    /\ last' = [op |-> "Recv", ch |-> c, st |-> Head(chBuf[c])]
    /\ UNCHANGED <<environment, topSpeed, runVars, queues, locals, subs, chClosed,
                   subVars, gsVars, submitted>>

\* the run lifetime is cancelled
CancelRun ==
    /\ ~ctxDone
    /\ ctxDone' = TRUE
    /\ last' = [op |-> "CancelRun"]
    /\ UNCHANGED <<environment, topSpeed, runPc, runErr, queues, locals, subs, chanVars,
                   subVars, gsVars, submitted>>

(***************************************************************************)
(* Engine.Run: one action per case of the select loop.  Go chooses among   *)
(* the ready cases at random, so every ready case may be the next one.     *)
(***************************************************************************)
RunStart ==
    /\ runPc = "init"
    /\ runPc' = "running"
    /\ last' = [op |-> "RunStart"]
    /\ UNCHANGED <<environment, topSpeed, ctxDone, runErr, queues, locals, subs,
                   chanVars, subVars, gsVars, submitted>>

\* a shutdown that returns without closing the subscriber channels
RunShutdownNoClose ==
    /\ runPc = "running"
    /\ ctxDone
    /\ runPc' = "returned"
    /\ runErr' = "nil"
    /\ last' = [op |-> "RunShutdown"]
    /\ UNCHANGED <<environment, topSpeed, ctxDone, queues, locals, subs, chanVars,
                   subVars, gsVars, submitted>>

\* a loop that may shut down although its lifetime is not cancelled
RunShutdownUncancelled ==
    /\ runPc = "running"
    /\ IF \E c \in subs : chClosed[c]
       THEN /\ runPc' = "panicked"
            /\ UNCHANGED <<runErr, chClosed>>
       ELSE /\ chClosed' = [c \in Chans |-> chClosed[c] \/ c \in subs]
            /\ runPc' = "returned"
            /\ runErr' = "nil"
    /\ last' = [op |-> "RunShutdown"]
    /\ UNCHANGED <<environment, topSpeed, ctxDone, queues, locals, subs, chBuf,
                   subVars, gsVars, submitted>>

\* case <-ctx.Done(): close every subscriber channel, return nil
\* (closing a closed channel panics)
RunShutdown ==
    /\ runPc = "running"
    /\ ctxDone
    /\ IF \E c \in subs : chClosed[c]
       THEN /\ runPc' = "panicked"
            /\ UNCHANGED <<runErr, chClosed>>
       ELSE /\ chClosed' = [c \in Chans |-> chClosed[c] \/ c \in subs]
            /\ runPc' = "returned"
            /\ runErr' = "nil"
    /\ last' = [op |-> "RunShutdown"]
    /\ UNCHANGED <<environment, topSpeed, ctxDone, queues, locals, subs, chBuf,
                   subVars, gsVars, submitted>>

\* case req := <-e.subscribeCh: register, then a blocking send of the
\* snapshot (a send on a closed channel panics, a send on a full one blocks)
RunSubscribe ==
    /\ runPc = "running"
    /\ subscribeCh # <<>>
    /\ LET c == Head(subscribeCh)
       IN  /\ subscribeCh' = Tail(subscribeCh)
           /\ subs' = subs \cup {c}
           /\ IF chClosed[c]
              THEN runPc' = "panicked" /\ chBuf' = chBuf
              ELSE IF Len(chBuf[c]) < SubCap
              THEN /\ chBuf' = [chBuf EXCEPT ![c] = Append(@, snapshotNow)]
                   /\ runPc' = runPc
              ELSE runPc' = "blocked" /\ chBuf' = chBuf
           /\ last' = [op |-> "RunSubscribe", ch |-> c]
    /\ UNCHANGED <<environment, topSpeed, ctxDone, runErr, cmdCh, stateReqCh, unsubCh,
                   locals, chClosed, subVars, gsVars, submitted>>

\* an unsubscribe case that closes the channel without looking it up in
\* the subscriber set
RunUnsubUnchecked ==
    /\ runPc = "running"
    /\ unsubCh # <<>>
    /\ LET c == Head(unsubCh)
       IN  /\ unsubCh' = Tail(unsubCh)
           /\ subs' = subs \ {c}
           /\ IF chClosed[c]
              THEN runPc' = "panicked" /\ chClosed' = chClosed
              ELSE /\ chClosed' = [chClosed EXCEPT ![c] = TRUE]
                   /\ runPc' = runPc
           /\ last' = [op |-> "RunUnsub", ch |-> c, member |-> c \in subs]
    /\ UNCHANGED <<environment, topSpeed, ctxDone, runErr, cmdCh, stateReqCh,
                   subscribeCh, locals, chBuf, subVars, gsVars, submitted>>

\* case ch := <-e.unsubCh: remove and close a registered channel
RunUnsub ==
    /\ runPc = "running"
    /\ unsubCh # <<>>
    /\ LET c == Head(unsubCh)
       IN  /\ unsubCh' = Tail(unsubCh)
           /\ IF c \in subs
              THEN /\ subs' = subs \ {c}
                   /\ IF chClosed[c]
                      THEN runPc' = "panicked" /\ chClosed' = chClosed
                      ELSE /\ chClosed' = [chClosed EXCEPT ![c] = TRUE]
                           /\ runPc' = runPc
              ELSE UNCHANGED <<subs, chClosed, runPc>>
           /\ last' = [op |-> "RunUnsub", ch |-> c, member |-> c \in subs]
    /\ UNCHANGED <<environment, topSpeed, ctxDone, runErr, cmdCh, stateReqCh,
                   subscribeCh, locals, chBuf, subVars, gsVars, submitted>>

\* a state-request case whose reply channel has no buffer: the send waits
\* for a caller that is still receiving
RunStateReqUnbuffered ==
    /\ runPc = "running"
    /\ stateReqCh # <<>>
    /\ LET r == Head(stateReqCh)
       IN  /\ stateReqCh' = Tail(stateReqCh)
           /\ IF gsPc[r] = "wait"
              THEN /\ reply' = [reply EXCEPT ![r] = Append(@, snapshotNow)]
                   /\ runPc' = runPc
              ELSE runPc' = "blocked" /\ reply' = reply
           /\ last' = [op |-> "RunStateReq", r |-> r]
    /\ UNCHANGED <<environment, topSpeed, ctxDone, runErr, cmdCh, subscribeCh, unsubCh,
                   locals, subs, chanVars, subVars, gsPc, gsCtx,
                   submitted>>

\* case req := <-e.stateReqCh: a blocking send of the snapshot on req.reply
RunStateReq ==
    /\ runPc = "running"
    /\ stateReqCh # <<>>
    /\ LET r == Head(stateReqCh)
       IN  /\ stateReqCh' = Tail(stateReqCh)
           /\ IF Len(reply[r]) < 1
              THEN /\ reply' = [reply EXCEPT ![r] = Append(@, snapshotNow)]
                   /\ runPc' = runPc
              ELSE runPc' = "blocked" /\ reply' = reply
           /\ last' = [op |-> "RunStateReq", r |-> r]
    /\ UNCHANGED <<environment, topSpeed, ctxDone, runErr, cmdCh, subscribeCh, unsubCh,
                   locals, subs, chanVars, subVars, gsPc, gsCtx,
                   submitted>>

\* a setActive that keeps the trajectory index
setActiveKeepsIndex(cmd) ==
    [active |-> cmd,
     traj |-> IF cmd.type = CmdTrajectory THEN cmd.Waypoints ELSE <<>>,
     trajIdx |-> trajIdx,
     trajLoop |-> IF cmd.type = CmdTrajectory THEN cmd.Loop ELSE FALSE]

\* setActive(cmd)
setActive(cmd) ==
    [active |-> cmd,
     traj |-> IF cmd.type = CmdTrajectory THEN cmd.Waypoints ELSE <<>>,
     trajIdx |-> 0,
     trajLoop |-> IF cmd.type = CmdTrajectory THEN cmd.Loop ELSE FALSE]

\* a switch whose Stop case leaves the velocity to the smoothing
applyCommandSmoothStop(cmd) ==
    IF cmd.type = CmdStop
    THEN [active |-> NoCmd, traj |-> <<>>, trajIdx |-> 0,
          trajLoop |-> trajLoop, vel |-> vel]
    ELSE IF cmd.type = CmdHold
    THEN [active |-> cmd, traj |-> <<>>, trajIdx |-> 0,
          trajLoop |-> trajLoop, vel |-> Zero3]
    ELSE [active |-> setActive(cmd).active, traj |-> setActive(cmd).traj,
          trajIdx |-> setActive(cmd).trajIdx,
          trajLoop |-> setActive(cmd).trajLoop, vel |-> vel]

\* a switch that keeps the Stop as the active command
applyCommandStopActive(cmd) ==
    IF cmd.type \in {CmdStop, CmdHold}
    THEN [active |-> cmd, traj |-> <<>>, trajIdx |-> 0,
          trajLoop |-> trajLoop, vel |-> Zero3]
    ELSE [active |-> setActive(cmd).active, traj |-> setActive(cmd).traj,
          trajIdx |-> setActive(cmd).trajIdx,
          trajLoop |-> setActive(cmd).trajLoop, vel |-> vel]

\* the switch of the cmdCh case: the locals after command cmd
applyCommand(cmd) ==
    IF cmd.type = CmdStop
    THEN [active |-> NoCmd, traj |-> <<>>, trajIdx |-> 0,
          trajLoop |-> trajLoop, vel |-> Zero3]
    ELSE IF cmd.type = CmdHold
    THEN [active |-> cmd, traj |-> <<>>, trajIdx |-> 0,
          trajLoop |-> trajLoop, vel |-> Zero3]
    ELSE IF cmd.type \in {CmdGoTo, CmdTrajectory}
    THEN [active |-> setActive(cmd).active, traj |-> setActive(cmd).traj,
          trajIdx |-> setActive(cmd).trajIdx,
          trajLoop |-> setActive(cmd).trajLoop, vel |-> vel]
    ELSE [active |-> active, traj |-> traj, trajIdx |-> trajIdx,
          trajLoop |-> trajLoop, vel |-> vel]

\* case cmd := <-e.cmdCh
RunCmd ==
    /\ runPc = "running"
    /\ cmdCh # <<>>
    /\ LET cmd == Head(cmdCh)
           n   == applyCommand(cmd)
       IN  /\ cmdCh' = Tail(cmdCh)
           /\ active' = n.active
           /\ traj' = n.traj
           /\ trajIdx' = n.trajIdx
           /\ trajLoop' = n.trajLoop
           /\ vel' = n.vel
           /\ last' = [op |-> "RunCmd", cmd |-> cmd, from |-> active.type,
                       fromIdx |-> trajIdx, pos |-> pos, vel |-> vel]
    /\ UNCHANGED <<environment, topSpeed, runVars, stateReqCh, subscribeCh, unsubCh,
                   now, pos, subs, chanVars, subVars, gsVars, submitted>>

\* a publish with blocking sends ch <- st: it waits at a full subscriber,
\* and nobody is served meanwhile
publishStall(st) ==
    [bufs |-> [c \in Chans |->
                 IF c \in subs /\ \A d \in subs : Len(chBuf[d]) < SubCap
                 THEN Append(chBuf[c], st) ELSE chBuf[c]],
     stuck |-> \E d \in subs : Len(chBuf[d]) = SubCap]

\* a publish that puts the new frame in front of the frames still queued
publishInFront(st) ==
    [bufs |-> [c \in Chans |->
                 IF c \in subs /\ Len(chBuf[c]) < SubCap
                 THEN <<st>> \o chBuf[c] ELSE chBuf[c]],
     stuck |-> FALSE]

\* publish(st): select { case ch <- st: default: } for every subscriber;
\* bufs are the buffers afterwards, stuck tells whether a send had to wait
publish(st) ==
    [bufs |-> [c \in Chans |->
                 IF c \in subs /\ Len(chBuf[c]) < SubCap
                 THEN Append(chBuf[c], st) ELSE chBuf[c]],
     stuck |-> FALSE]

\* case t := <-tick.C, the ticker's time being now + elapsed
RunTick(elapsed) ==
    /\ runPc = "running"
    /\ now + elapsed <= MaxNow
    /\ topSpeed' = Max(topSpeed, tickSpeed(active, traj, trajIdx))
    /\ \E dt \in {tickDt(elapsed)},
          d \in {desiredFor(active, traj, trajIdx, trajLoop, pos)} :
       \E n \in {integrate(environment, pos, vel, d.desired, dt)} :
       \E st \in {buildSnapshot(n.pos, n.vel, d.active, d.trajIdx,
                                now + elapsed, n.warning)} :
           /\ Abs(n.pos.X) <= MaxX
           /\ now' = now + elapsed
           /\ active' = d.active
           /\ trajIdx' = d.trajIdx
           /\ vel' = n.vel
           /\ pos' = n.pos
           /\ IF \E c \in subs : chClosed[c]
              THEN runPc' = "panicked" /\ chBuf' = chBuf
              ELSE /\ chBuf' = publish(st).bufs
                   /\ runPc' = IF publish(st).stuck THEN "blocked" ELSE runPc
           /\ last' = [op |-> "RunTick", dt |-> dt, desired |-> d.desired,
                       st |-> st, from |-> active.type, act |-> active, bufs |-> chBuf,
                       fromIdx |-> trajIdx, pos |-> pos, vel |-> vel]
    /\ UNCHANGED <<environment, ctxDone, runErr, queues, traj, trajLoop,
                   subs, chClosed, subVars, gsVars, submitted>>

(***************************************************************************)
(* Inputs and specifications.                                              *)
(***************************************************************************)
\* 100 m east of the origin, 20 m above the start altitude, at 50 m/s
GoToEast == GoToCommand(0, 100, StartAlt + 20, 50)
\* back to the origin at the default speed
GoToHome == GoToCommand(0, 0, StartAlt, 0)
WpEast == Waypoint(0, 100, StartAlt, 50)
\* back to the start point, with a negative speed (the default applies)
WpHome == Waypoint(0, 0, StartAlt, -1)

Commands ==
    {StopCommand, HoldCommand, GoToEast, GoToHome,
     TrajectoryCommand(<<WpEast, WpHome>>, TRUE),
     TrajectoryCommand(<<WpEast, WpHome>>, FALSE),
     TrajectoryCommand(<<>>, FALSE)}

\* elapsed time between two ticks (0: the clock did not advance)
Elapsed == {0, 1}

\* the command state machine: commands and ticks against a running engine
\* with no environment
InitCmd == InitWith(NoEnv)

NextCmd ==
    \/ RunStart
    \/ \E c \in Commands : Submit(c)
    \/ RunCmd
    \/ \E el \in Elapsed : RunTick(el)

SpecCmd == InitCmd /\ [][NextCmd]_vars

\* the subscriber lifecycle: Subscribe, unsubscribe, consumers, ticks and
\* shutdown
Init == InitWith(NoEnv)

Next ==
    \/ RunStart
    \/ CancelRun
    \/ RunShutdown
    \/ RunSubscribe
    \/ RunUnsub
    \/ \E el \in Elapsed : RunTick(el)
    \/ \E c \in Chans :
          \/ CancelSub(c)
          \/ SubscribeCall(c)
          \/ SubscribeSend(c)
          \/ SubscribeCtxDone(c)
          \/ Unsub(c)
          \/ UnsubNoop(c)
          \/ Recv(c)

Spec == Init /\ [][Next]_vars

\* state queries: GetState callers, ticks and shutdown
NextGet ==
    \/ RunStart
    \/ CancelRun
    \/ RunShutdown
    \/ RunStateReq
    \/ \E el \in Elapsed : RunTick(el)
    \/ \E r \in Reqs :
          \/ CancelReq(r)
          \/ GetStateCall(r)
          \/ GetStateSend(r)
          \/ GetStateCtxDone(r)
          \/ GetStateReply(r)

SpecGet == Init /\ [][NextGet]_vars

\* the fire-and-forget callers: Submit and one subscriber's unsubscribe
\* handle, before Run, while it runs and after it returned
CallerCommands == {StopCommand, HoldCommand}

NextCallers ==
    \/ RunStart
    \/ CancelRun
    \/ RunShutdown
    \/ RunSubscribe
    \/ RunUnsub
    \/ RunCmd
    \/ \E el \in Elapsed : RunTick(el)
    \/ \E c \in CallerCommands : Submit(c)
    \/ SubscribeCall(1)
    \/ SubscribeSend(1)
    \/ Unsub(1)

SpecCallers == Init /\ [][NextCallers]_vars

\* a single GoTo to local (100, 0, 0), 100 m east on the ground, at 50 m/s,
\* flown to its end: the ticker keeps firing while Run runs
GoToLocalEast == GoToCommand(0, 100, 0, 50)

NextGoTo ==
    \/ RunStart
    \/ Submit(GoToLocalEast)
    \/ RunCmd
    \/ \E el \in Elapsed : RunTick(el)

SpecGoTo ==
    /\ Init /\ [][NextGoTo]_vars
    /\ WF_vars(RunCmd)
    /\ WF_vars(\E el \in Elapsed : RunTick(el))

\* a single looping trajectory over two waypoints, flown for ever
TrajLoop == TrajectoryCommand(<<WpEast, WpHome>>, TRUE)

NextLoop ==
    \/ RunStart
    \/ Submit(TrajLoop)
    \/ RunCmd
    \/ \E el \in Elapsed : RunTick(el)

SpecLoop ==
    /\ Init /\ [][NextLoop]_vars
    /\ WF_vars(RunCmd)
    /\ WF_vars(\E el \in Elapsed : RunTick(el))

\* concurrent callers: Submit and GetState against the running actor; a
\* blocked channel send is served in turn once the channel has room
ConcCommands == {StopCommand, GoToHome}

NextConc ==
    \/ RunStart
    \/ RunCmd
    \/ RunStateReq
    \/ \E el \in Elapsed : RunTick(el)
    \/ \E c \in ConcCommands : Submit(c)
    \/ \E r \in Reqs :
          \/ GetStateCall(r)
          \/ GetStateSend(r)
          \/ GetStateReply(r)

SpecConc ==
    /\ Init /\ [][NextConc]_vars
    /\ WF_vars(RunStateReq)
    /\ \A r \in Reqs : SF_vars(GetStateSend(r)) /\ WF_vars(GetStateReply(r))

\* the three sources of snapshots together: a subscriber (first frame and
\* tick broadcasts) and GetState callers, under commands of every type
SnapCommands ==
    {StopCommand, HoldCommand, GoToHome, TrajectoryCommand(<<WpHome>>, TRUE)}

NextSnap ==
    \/ RunStart
    \/ RunCmd
    \/ RunStateReq
    \/ RunSubscribe
    \/ \E el \in Elapsed : RunTick(el)
    \/ \E c \in SnapCommands : Submit(c)
    \/ SubscribeCall(1)
    \/ SubscribeSend(1)
    \/ Recv(1)
    \/ GetStateCall(1)
    \/ GetStateSend(1)
    \/ GetStateReply(1)

SpecSnap == Init /\ [][NextSnap]_vars

\* the engine with an environment, as cmd/server builds it: the terrain
\* with its 80 m margin, behind a wind or alone, or the wind alone
Environments ==
    {<<Terrain(80)>>, <<Wind(5, 2), Terrain(80)>>, <<Wind(5, 2)>>}
EnvCommands == {GoToLocalEast}

\* inputs of the direct calls: effects, chains of them, time steps,
\* positions around the safety floor and velocities
Effects == {Wind(5, 2), Terrain(80), NoOp, Warner("a"), Warner("b")}
Chains == UNION {[1..n -> Effects] : n \in 0..MaxChain}
Dts == {0, 1, 2}
Positions ==
    {Vec3(x, 0, z) : x \in {0, 200}, z \in {50, 80, 150}}
        \cup {Vec3(0, 0, 200), Vec3(100, 100, 100)}
Velocities == {Vec3(100, 0, -15), Zero3, Vec3(-3, 4, 2)}

\* environment.Apply(dt, pos, vel) called directly on a chain, as the
\* environment demo does, once and before anything else; outs are the
\* results of each effect's own Apply on the same inputs
EnvApply ==
    /\ runPc = "init" /\ last.op = "New"
    /\ \E effects \in Chains, dt \in Dts, p \in Positions, v \in Velocities :
          last' = [op |-> "EnvApply", effects |-> effects, dt |-> dt,
                   pos |-> p, vel |-> v,
                   out |-> ChainApply(effects, dt, p, v),
                   outs |-> [i \in 1..Len(effects) |->
                               EffectApply(effects[i], dt, p, v)]]
    /\ UNCHANGED <<environment, topSpeed, runVars, queues, locals, subs, chanVars,
                   subVars, gsVars, submitted>>

InitEnv == \E environ \in Environments : InitWith(environ)

NextEnv ==
    \/ EnvApply
    \/ RunStart
    \/ \E c \in EnvCommands : Submit(c)
    \/ RunCmd
    \/ \E el \in Elapsed : RunTick(el)

SpecEnv == InitEnv /\ [][NextEnv]_vars

(***************************************************************************)
(* GetState callers that may give up on their deadline, next to one        *)
(* subscriber that never reads its channel.                                *)
(***************************************************************************)
NextIdle ==
    \/ RunStart
    \/ RunStateReq
    \/ RunSubscribe
    \/ \E el \in Elapsed : RunTick(el)
    \/ SubscribeCall(1)
    \/ SubscribeSend(1)
    \/ \E r \in Reqs :
          \/ CancelReq(r)
          \/ GetStateCall(r)
          \/ GetStateSend(r)
          \/ GetStateCtxDone(r)
          \/ GetStateReply(r)

SpecIdle == Init /\ [][NextIdle]_vars

(***************************************************************************)
(* The vector package on its own: Norm and Normalize applied to vectors    *)
(* with small integer components, the result recorded in last.             *)
(***************************************************************************)
Components == {-4, -3, 0, 2, 3, 4}
Vectors == {Vec3(x, y, z) : x \in Components, y \in Components, z \in Components}

VecApply ==
    /\ runPc = "init"
    /\ \E v \in Vectors :
          last' = [op |-> "VecApply", v |-> v, norm |-> Norm(v),
                   unit |-> Normalize(v)]
    /\ UNCHANGED <<environment, topSpeed, runVars, queues, locals, subs, chanVars,
                   subVars, gsVars, submitted>>

InitVec == InitWith(NoEnv)

NextVec == VecApply

SpecVec == InitVec /\ [][NextVec]_vars

(***************************************************************************)
(* Properties.                                                             *)
(***************************************************************************)

\* C1: Submit and the unsubscribe handle never block: both can always take
\* their step; a Submit with room in cmdCh appends the command, a Submit on
\* a full cmdCh leaves cmdCh and all engine state as they were, whatever
\* Run is doing (not started, running, returned); the same for unsub and
\* unsubCh.
C1_NeverBlocked ==
    /\ submitted < NumCmds => \A c \in CallerCommands : ENABLED Submit(c)
    /\ subPc[1] = "open" => ENABLED Unsub(1)

C1_SubmitStep ==
    last'.op = "Submit" =>
        /\ last'.ok = (Len(cmdCh) < CmdCap)
        /\ cmdCh' = IF Len(cmdCh) < CmdCap THEN Append(cmdCh, last'.cmd)
                    ELSE cmdCh
        /\ UNCHANGED <<environment, topSpeed, runVars, stateReqCh, subscribeCh,
                       unsubCh, locals, subs, chanVars>>

C1_UnsubStep ==
    last'.op = "Unsub" =>
        /\ unsubCh' = IF Len(unsubCh) < ReqCap THEN Append(unsubCh, last'.ch)
                      ELSE unsubCh
        /\ UNCHANGED <<environment, topSpeed, runVars, cmdCh, stateReqCh, subscribeCh,
                       locals, subs, chanVars>>

C1_SubmitNeverBlocks ==
    []C1_NeverBlocked /\ [][C1_SubmitStep /\ C1_UnsubStep]_vars

\* a command was dropped on a full queue while Run was running
C1_Witness ==
    last.op = "Submit" /\ ~last.ok /\ Len(cmdCh) = CmdCap /\ runPc = "running"

\* C2: GetState returns only with the actor's snapshot (and no error) or,
\* with an error, when the caller's context is done; until then the caller
\* is blocked; once the context is done the call can always return, also
\* when Run is not running or has returned and the request never gets in.
C2_GetStateReturns ==
    /\ \A r \in Reqs :
          /\ gsPc[r] = "err" => gsCtx[r]
          /\ gsPc[r] \in {"send", "wait"} /\ gsCtx[r]
                => ENABLED GetStateCtxDone(r)
          /\ gsPc[r] = "wait" /\ reply[r] # <<>> => ENABLED GetStateReply(r)
          /\ gsPc[r] = "wait" /\ reply[r] = <<>> /\ ~gsCtx[r]
                => ~ENABLED GetStateReply(r) /\ ~ENABLED GetStateCtxDone(r)
          /\ gsPc[r] = "send" /\ Len(stateReqCh) = ReqCap /\ ~gsCtx[r]
                => ~ENABLED GetStateSend(r) /\ ~ENABLED GetStateCtxDone(r)
    /\ last.op = "GetStateReply" => last.err = "nil" /\ last.st # NoState
    /\ last.op = "GetStateCtxDone" => last.err = "ctx" /\ gsCtx[last.r]

\* a caller whose request never got into the full queue, Run not running,
\* returned the context's error
C2_Witness ==
    /\ last.op = "GetStateCtxDone" /\ last.phase = "send"
    /\ runPc = "init" /\ Len(stateReqCh) = ReqCap

\* C3 (as claimed): a Subscribe whose context was cancelled before the call
\* returned has enqueued no request and returned a closed channel.
C3_CancelledNotRegistered ==
    \A c \in Chans :
        subCtx[c] /\ subPc[c] \in {"open", "cancelled"}
            => subPc[c] = "cancelled" /\ chClosed[c]

\* C4: Run returns only after the lifetime was cancelled, it returns nil,
\* every channel of the subscriber set is then closed, it has no other way
\* out, and a cancelled lifetime always lets it take the shutdown case.
C4_RunExit ==
    /\ runPc \in {"init", "running", "returned"}
    /\ runPc = "returned"
          => ctxDone /\ runErr = "nil" /\ \A c \in subs : chClosed[c]
    /\ runPc # "returned" => runErr = "none"
    /\ runPc = "running" /\ ctxDone => ENABLED RunShutdown
    /\ runPc = "running" /\ ~ctxDone => ~ENABLED RunShutdown

\* Run returned with two registered subscribers
C4_Witness ==
    runPc = "returned" /\ last.op = "RunShutdown" /\ Cardinality(subs) = 2

\* C5 (as claimed): every channel handed out by Subscribe is closed in the
\* end.  Only Run closes a handed-out channel, so once Run has returned a
\* channel that is still open stays open for ever: the claim requires
\* every handed-out channel to be closed whenever Run has returned.
C5_AllClosedAfterShutdown ==
    runPc = "returned" =>
        \A c \in Chans : subPc[c] \in {"open", "cancelled"} => chClosed[c]

\* C6: a tick offers its snapshot to every subscriber without waiting: the
\* actor is not stuck after a tick, a subscriber with room has the tick's
\* snapshot appended once to the buffer it had, and a full subscriber keeps
\* its buffer.
C6_SlowSubscriber ==
    last.op = "RunTick" =>
        /\ runPc = "running"
        /\ last.st.TS = now
        /\ \A c \in Chans :
              chBuf[c] = IF c \in subs /\ Len(last.bufs[c]) < SubCap
                         THEN Append(last.bufs[c], last.st)
                         ELSE last.bufs[c]

\* a tick whose frame one full subscriber missed and another one received
C6_Witness ==
    /\ last.op = "RunTick"
    /\ \E c, d \in subs :
          /\ Len(last.bufs[c]) = SubCap /\ chBuf[c][SubCap] # last.st
          /\ Len(last.bufs[d]) < SubCap /\ chBuf[d][Len(chBuf[d])] = last.st

\* C7 (as claimed): once unsub was called and the actor has processed all
\* pending subscribe and unsubscribe requests, the channel is out of the
\* subscriber set and closed.
C7_UnsubscribedIsClosed ==
    \A c \in Chans :
        /\ unsubCalled[c] /\ subPc[c] = "open"
        /\ runPc = "running" /\ subscribeCh = <<>> /\ unsubCh = <<>>
        => c \notin subs /\ chClosed[c]

\* C8: after a Stop is processed the engine is Idle with zero velocity, no
\* waypoints and index 0, at the position it had.
C8_Stop ==
    last.op = "RunCmd" /\ last.cmd.type = CmdStop =>
        /\ active = NoCmd /\ vel = Zero3 /\ traj = <<>> /\ trajIdx = 0
        /\ pos = last.pos

\* a Stop processed while a trajectory was at waypoint 1 and moving
C8_Witness ==
    /\ last.op = "RunCmd" /\ last.cmd.type = CmdStop
    /\ last.from = CmdTrajectory /\ last.fromIdx = 1
    /\ last.vel.X # 0 /\ pos.X # 0

\* C9: after a Hold is processed Hold is active with zero velocity, no
\* waypoints and index 0; a tick that finds Hold active leaves it active
\* with desired velocity zero, and the velocity stays zero under Hold.
C9_Hold ==
    /\ last.op = "RunCmd" /\ last.cmd.type = CmdHold =>
          /\ active = HoldCommand /\ vel = Zero3 /\ traj = <<>>
          /\ trajIdx = 0 /\ pos = last.pos
    /\ last.op = "RunTick" /\ last.from = CmdHold =>
          active = HoldCommand /\ last.desired = Zero3
    /\ active = HoldCommand => vel = Zero3

\* a tick under a Hold that was given while the aircraft was under way
C9_Witness ==
    last.op = "RunTick" /\ last.from = CmdHold /\ pos.X # 0

\* C10: after a GoTo or Trajectory is processed it is the active command,
\* the index is 0, and the waypoints and loop flag are the command's (none
\* and false for a GoTo).
C10_Replace ==
    last.op = "RunCmd" /\ last.cmd.type \in {CmdGoTo, CmdTrajectory} =>
        /\ active = last.cmd /\ trajIdx = 0
        /\ traj = IF last.cmd.type = CmdTrajectory
                  THEN last.cmd.Waypoints ELSE <<>>
        /\ trajLoop = IF last.cmd.type = CmdTrajectory
                      THEN last.cmd.Loop ELSE FALSE

\* a command replacing a trajectory that was at waypoint 1
C10_Witness ==
    /\ last.op = "RunCmd" /\ last.cmd.type \in {CmdGoTo, CmdTrajectory}
    /\ last.from = CmdTrajectory /\ last.fromIdx = 1

\* the target of a GoTo command in the local frame
C11_Target(c) == GeoToLocal(c.Lat, c.Lon, c.Alt)

\* horizontal distance from p to the target of GoTo command c
C11_HorizDist(c, p) ==
    dist2D(Vec3(C11_Target(c).X - p.X, C11_Target(c).Y - p.Y, 0))

\* C11 (as claimed): a tick that finds the GoTo active within 25 m
\* horizontally of its target clears the active command.
C11_ClearedOnceHorizClose ==
    /\ last.op = "RunTick" /\ last.from = CmdGoTo
    /\ C11_HorizDist(GoToLocalEast, last.pos) <= posTolM
    => active = NoCmd

\* a tick clears the GoTo exactly when it begins within 25 m horizontally
\* and within 10 m vertically of the target
C11_ClearedOnArrival ==
    last.op = "RunTick" /\ last.from = CmdGoTo =>
        (active = NoCmd <=>
            /\ C11_HorizDist(GoToLocalEast, last.pos) <= posTolM
            /\ Abs(C11_Target(GoToLocalEast).Z - last.pos.Z) <= altTolM)

\* C11 (amended): the GoTo to local (100, 0, 0) from the initial state is
\* cleared by the first tick that begins within 25 m horizontally and 10 m
\* vertically of the target, by no tick before, and with the ticker running
\* that tick comes.
C11_GoToArrival ==
    /\ []C11_ClearedOnArrival
    /\ (active = GoToLocalEast ~> active = NoCmd)

\* the tick that clears the GoTo, after the descent from the start altitude
C11_Witness ==
    /\ last.op = "RunTick" /\ last.from = CmdGoTo /\ active = NoCmd
    /\ submitted = 1
    /\ C11_HorizDist(GoToLocalEast, last.pos) <= posTolM
    /\ last.pos.Z <= altTolM

\* under the looping trajectory the index is 0 or 1 and the trajectory
\* stays active; a tick moves the index only from 0 to 1 or from 1 to 0,
\* and only when it began within tolerance of waypoints[index]
C12_IndexValid ==
    /\ active # NoCmd => active = TrajLoop /\ trajIdx \in {0, 1}
    /\ last.op = "RunTick" /\ last.from = CmdTrajectory =>
          /\ active = TrajLoop
          /\ last.st.ActiveCommand = CmdTrajectory
          /\ last.st.TargetIndex = trajIdx
          /\ trajIdx = IF arrived(last.pos,
                                  C11_Target(traj[last.fromIdx + 1]))
                       THEN 1 - last.fromIdx ELSE last.fromIdx

\* C12: with a looping trajectory over two reachable waypoints and no
\* other command, the index stays 0 or 1, the trajectory stays active, and
\* each waypoint is the target again and again: from index 0 the index
\* becomes 1, from 1 it becomes 0, for ever.
C12_Looping ==
    /\ []C12_IndexValid
    /\ (active = TrajLoop /\ trajIdx = 0 ~> active = TrajLoop /\ trajIdx = 1)
    /\ (active = TrajLoop /\ trajIdx = 1 ~> active = TrajLoop /\ trajIdx = 0)

\* the tick that reaches the last waypoint and wraps the index to 0
C12_Witness ==
    /\ last.op = "RunTick" /\ last.from = CmdTrajectory
    /\ last.fromIdx = 1 /\ trajIdx = 0 /\ active = TrajLoop
    /\ submitted = 1

\* C13: a trajectory without loop starts at index 0; a tick leaves the
\* index or adds one to it, and adds one exactly when it began within
\* tolerance of waypoints[index]; the tick that moves the index past the
\* last waypoint clears the active command, and no other tick does.
C13_InOrder ==
    /\ last.op = "RunCmd" /\ last.cmd.type = CmdTrajectory => trajIdx = 0
    /\ /\ last.op = "RunTick" /\ last.from = CmdTrajectory
       /\ ~trajLoop /\ traj # <<>>
       => /\ last.fromIdx \in 0..(Len(traj) - 1)
          /\ trajIdx = IF arrived(last.pos,
                                  C11_Target(traj[last.fromIdx + 1]))
                       THEN last.fromIdx + 1 ELSE last.fromIdx
          /\ active = IF trajIdx >= Len(traj) THEN NoCmd
                      ELSE TrajectoryCommand(traj, FALSE)
          /\ last.st.TargetIndex = trajIdx

\* the tick that reaches the second and last waypoint of a trajectory
\* without loop
C13_Witness ==
    /\ last.op = "RunTick" /\ last.from = CmdTrajectory
    /\ ~trajLoop /\ Len(traj) = 2
    /\ last.fromIdx = 1 /\ trajIdx = 2 /\ active = NoCmd

\* the index of the active trajectory is out of bounds for its waypoints
C14_BadIndex(tr, idx) == Len(tr) = 0 \/ idx < 0 \/ idx >= Len(tr)

\* C14: a tick that finds a Trajectory active with no waypoint at its index
\* (an empty list, or an index out of bounds) does not fault: Run is still
\* running, the active command is cleared as a Stop clears it, the desired
\* velocity is zero and the snapshot reports no active command; a tick that
\* keeps a Trajectory active has its index inside the waypoint list.
C14_ImplicitStop ==
    /\ runPc # "panicked"
    /\ /\ last.op = "RunTick" /\ last.from = CmdTrajectory
       /\ C14_BadIndex(traj, last.fromIdx)
       => /\ runPc = "running"
          /\ active = NoCmd
          /\ last.desired = Zero3
          /\ last.st.ActiveCommand = ""
          /\ trajIdx = last.fromIdx
    /\ active.type = CmdTrajectory /\ last.op = "RunTick" =>
          ~C14_BadIndex(traj, last.fromIdx) /\ ~C14_BadIndex(traj, trajIdx)

\* the first tick after a Trajectory with an empty waypoint list, given
\* while the aircraft was moving
C14_Witness ==
    /\ last.op = "RunTick" /\ last.from = CmdTrajectory
    /\ traj = <<>> /\ active = NoCmd /\ last.vel.X # 0

\* the actor neither panics nor waits in a handler; the reply written by
\* the state-request handler is the snapshot of the actor's state, which the
\* handler leaves as the last whole event left it
C15_NoFault ==
    /\ runPc \in {"init", "running"}
    /\ last.op = "RunStateReq" => reply[last.r] = <<snapshotNow>>

\* every step is one whole event: a command enters cmdCh at the tail, the
\* actor applies the command at the head, whole; the actor's state changes
\* only by a command or a tick; a reply is the snapshot written by the
\* state-request handler and is returned as written
C15_Step ==
    /\ Len(cmdCh') > Len(cmdCh) =>
          /\ last'.op = "Submit" /\ last'.ok
          /\ cmdCh' = Append(cmdCh, last'.cmd)
          /\ locals' = locals
    /\ Len(cmdCh') < Len(cmdCh) =>
          /\ last'.op = "RunCmd" /\ last'.cmd = Head(cmdCh)
          /\ cmdCh' = Tail(cmdCh)
          /\ active' = applyCommand(Head(cmdCh)).active
          /\ traj' = applyCommand(Head(cmdCh)).traj
          /\ trajIdx' = applyCommand(Head(cmdCh)).trajIdx
          /\ vel' = applyCommand(Head(cmdCh)).vel
          /\ pos' = pos /\ now' = now
    /\ Len(cmdCh') = Len(cmdCh) =>
          /\ cmdCh' = cmdCh
          /\ last'.op = "Submit" /\ last' # last => ~last'.ok
    /\ locals' # locals => last'.op \in {"RunCmd", "RunTick"}
    /\ \A r \in Reqs :
          reply'[r] # reply[r] =>
              \/ /\ last'.op = "RunStateReq" /\ last'.r = r
                 /\ locals' = locals
                 /\ reply'[r] = <<snapshotNow>>
              \/ /\ last'.op = "GetStateReply" /\ last'.r = r
                 /\ reply'[r] = <<>> /\ last'.st = reply[r][1]
                 /\ last'.err = "nil"

C16_Known(st) == st.ActiveCommand \in {CmdGoTo, CmdTrajectory, CmdHold, ""}

\* the activeCommand of snapshot st reports the active command act
C16_Reports(st, act) ==
    /\ C16_Known(st)
    /\ st.ActiveCommand = "" <=> act = NoCmd
    /\ st.ActiveCommand = CmdHold <=> act = HoldCommand
    /\ st.ActiveCommand # "" => st.ActiveCommand = act.type

\* C16: every snapshot, whether a GetState reply, a subscriber's first
\* frame or a tick's broadcast, reports "goto", "trajectory", "hold" or no
\* active command, never "stop"; a snapshot just built reports none exactly
\* when the engine is Idle and "hold" exactly when Hold is active.
C16_ActiveCommand ==
    /\ \A c \in Chans : \A i \in 1..Len(chBuf[c]) : C16_Known(chBuf[c][i])
    /\ \A r \in Reqs : \A i \in 1..Len(reply[r]) : C16_Known(reply[r][i])
    /\ last.op = "GetStateReply" => C16_Known(last.st)
    /\ last.op = "RunTick" => C16_Reports(last.st, active)
    /\ last.op = "RunStateReq" => C16_Reports(reply[last.r][1], active)
    /\ last.op = "RunSubscribe" /\ runPc = "running" =>
          C16_Reports(chBuf[last.ch][Len(chBuf[last.ch])], active)
    /\ C16_Reports(snapshotNow, active)

\* after a Stop: a GetState reply and a subscriber's frame that both report
\* no active command, and an earlier frame that reported Hold
C16_Witness ==
    /\ last.op = "GetStateReply" /\ last.st.ActiveCommand = ""
    /\ active = NoCmd /\ submitted = 2
    /\ Len(chBuf[1]) = 2
    /\ chBuf[1][1].ActiveCommand = CmdHold /\ chBuf[1][2].ActiveCommand = ""

\* the margin of the terrain effect in the engine's environment, if any
C17_HasTerrain == \E i \in 1..Len(environment) : environment[i].kind = "terrain"
C17_Margin ==
    (CHOOSE e \in {environment[i] : i \in 1..Len(environment)} :
        e.kind = "terrain").SafetyMarginM

\* C17 (as claimed): with the terrain in the environment every snapshot
\* published by a tick has its altitude at or above the ground altitude at
\* its position plus the safety margin.
C17_SafetyFloor ==
    last.op = "RunTick" /\ C17_HasTerrain =>
        last.st.Alt >= GroundAltitude(pos) + C17_Margin

\* the safety floor of terrain t at position p
C18_Floor(t, p) == GroundAltitude(p) + t.SafetyMarginM

\* the postcondition of Terrain.Apply for terrain t, inputs p and v, and
\* result r
C18_Post(t, p, v, r) ==
    /\ r.pos.Z >= C18_Floor(t, p)
    /\ r.pos.X = p.X /\ r.pos.Y = p.Y
    /\ IF p.Z < C18_Floor(t, p)
       THEN /\ r.pos.Z = C18_Floor(t, p)
            /\ r.warning = TerrainWarning
            /\ r.vel = IF v.Z < 0 THEN Vec3(v.X, v.Y, 0) ELSE v
       ELSE r = [pos |-> p, vel |-> v, warning |-> NoWarning]

\* C18: Terrain.Apply returns a position at or above the safety floor of
\* the position it was given, with x and y as given; a position below the
\* floor is raised to it and the warning is returned, with the vertical
\* velocity zeroed if it was a descent; a position at or above the floor
\* comes back with the velocity as given and no warning.
C18_TerrainApply ==
    last.op = "EnvApply" =>
        \A i \in 1..Len(last.effects) :
            last.effects[i].kind = "terrain" =>
                C18_Post(last.effects[i], last.pos, last.vel, last.outs[i])

\* a descending aircraft below the floor of rising ground is clamped
C18_Witness ==
    /\ last.op = "EnvApply" /\ Len(last.effects) = 1
    /\ last.effects[1].kind = "terrain"
    /\ last.pos.X = 200 /\ last.pos.Z = 80 /\ last.vel.Z < 0
    /\ last.outs[1].pos.Z > 80 /\ last.outs[1].vel.Z = 0
    /\ last.dt = 2

\* the smoothed air velocity of the tick recorded in last
C19_Smoothed == approachVel(last.vel, last.desired, last.dt)

\* C19: Wind.Apply returns the velocity it was given, the position moved by
\* (wx*dt, wy*dt, 0) and no warning; in the engine a tick under a wind
\* reports the smoothed air velocity, the wind not added (the vertical
\* component unless the terrain behind the wind clipped it), and moves the
\* position by the wind drift and that velocity.
C19_Wind ==
    /\ last.op = "EnvApply" =>
          \A i \in 1..Len(last.effects) :
              last.effects[i].kind = "wind" =>
                  last.outs[i] =
                      [pos |-> Vec3(last.pos.X + last.effects[i].Wx * last.dt,
                                    last.pos.Y + last.effects[i].Wy * last.dt,
                                    last.pos.Z),
                       vel |-> last.vel, warning |-> NoWarning]
    /\ /\ last.op = "RunTick"
       /\ environment # NoEnv /\ environment[1].kind = "wind"
       => /\ last.st.Vx = C19_Smoothed.X /\ last.st.Vy = C19_Smoothed.Y
          /\ last.st.Warning = NoWarning => last.st.Vz = C19_Smoothed.Z
          /\ vel.X = last.st.Vx /\ vel.Y = last.st.Vy /\ vel.Z = last.st.Vz
          /\ pos.X = last.pos.X + environment[1].Wx * last.dt
                         + vel.X * last.dt
          /\ pos.Y = last.pos.Y + environment[1].Wy * last.dt
                         + vel.Y * last.dt

\* a tick of the engine under the wind with the aircraft at rest in the
\* air: the position drifts, the reported velocity is zero
C19_Witness ==
    /\ last.op = "RunTick" /\ environment = <<Wind(5, 2)>>
    /\ vel = Zero3 /\ last.st.Vx = 0 /\ last.st.Vy = 0
    /\ pos.X = last.pos.X + 5 /\ pos.Y = last.pos.Y + 2

\* the chain's result on the inputs recorded in last, effect by effect
C20_R1 == EffectApply(last.effects[1], last.dt, last.pos, last.vel)
C20_R2 == EffectApply(last.effects[2], last.dt, C20_R1.pos, C20_R1.vel)
C20_R3 == EffectApply(last.effects[3], last.dt, C20_R2.pos, C20_R2.vel)

\* the later warning unless it is empty
C20_Later(earlier, later) == IF later # NoWarning THEN later ELSE earlier

\* C20: Chain.Apply hands position and velocity from each effect to the
\* next in list order and returns those of the last effect, with the last
\* warning that was not empty; an empty chain returns its inputs and no
\* warning.
C20_Chain ==
    last.op = "EnvApply" =>
        /\ Len(last.effects) = 0 =>
              last.out = [pos |-> last.pos, vel |-> last.vel,
                          warning |-> NoWarning]
        /\ Len(last.effects) = 1 => last.out = C20_R1
        /\ Len(last.effects) = 2 =>
              last.out = [pos |-> C20_R2.pos, vel |-> C20_R2.vel,
                          warning |-> C20_Later(C20_R1.warning,
                                                C20_R2.warning)]
        /\ Len(last.effects) = 3 =>
              last.out = [pos |-> C20_R3.pos, vel |-> C20_R3.vel,
                          warning |->
                              C20_Later(C20_Later(C20_R1.warning,
                                                  C20_R2.warning),
                                        C20_R3.warning)]

\* a chain of two effects that both warn: the warning of the first is
\* replaced by that of the second
C20_Witness ==
    /\ last.op = "EnvApply"
    /\ last.effects \in {<<Warner("a"), Terrain(80)>>,
                          <<Warner("a"), Warner("b")>>}
    /\ last.outs[1].warning = "a"
    /\ last.out.warning \notin {"a", NoWarning}

(***************************************************************************)
(* C21: Vec3.Norm returns the Euclidean magnitude of the vector (its       *)
(* square is the sum of the squared components, e.g. 5 for (3,4,0)), and   *)
(* Vec3.Normalize returns the zero vector for the zero vector and, for     *)
(* every other vector, a vector of magnitude 1 (UnitScale, up to the       *)
(* rounding of each component) whose components have the signs of the      *)
(* input's, e.g. (1,0,0) for (2,0,0).                                      *)
(***************************************************************************)
C21_Sign(n) == IF n > 0 THEN 1 ELSE IF n < 0 THEN -1 ELSE 0

C21_NormIsMagnitude ==
    last.op = "VecApply" =>
        /\ last.norm >= 0
        /\ last.norm * last.norm = Dot(last.v, last.v)
        /\ last.v = Zero3 => last.unit = Zero3
        /\ last.v # Zero3 =>
              /\ Dot(last.unit, last.unit) >= (UnitScale - 2) * (UnitScale - 2)
              /\ Dot(last.unit, last.unit) <= UnitScale * UnitScale
              /\ \A f \in {"X", "Y", "Z"} :
                    last.unit[f] = 0 \/ C21_Sign(last.unit[f]) = C21_Sign(last.v[f])
        /\ last.v = Vec3(3, 4, 0) => last.norm = 5
        /\ last.v = Vec3(2, 0, 0) => last.unit = Vec3(UnitScale, 0, 0)

(***************************************************************************)
(* C22: each tick first drains the queued commands: when the actor has     *)
(* executed a tick's computation, no command that was in the command queue *)
(* when that tick was selected is still unprocessed (the tick leaves the   *)
(* queue as it found it, so the queue is empty right after a tick).        *)
(***************************************************************************)
C22_TickDrainsCommands ==
    last.op = "RunTick" => cmdCh = <<>>

(***************************************************************************)
(* C23 (as stated): cancellation is checked first on every iteration of    *)
(* the actor loop.  An iteration starts when Run enters the loop or when   *)
(* the previous handler has finished; if the lifetime is cancelled by      *)
(* then, the iteration performs shutdown and processes no command, state   *)
(* query, subscribe, unsubscribe or tick event.                            *)
(***************************************************************************)
C23_Events == {"RunCmd", "RunStateReq", "RunSubscribe", "RunUnsub", "RunTick"}

C23_CancellationFirst ==
    [][(ctxDone /\ last.op \in C23_Events \cup {"RunStart"})
          => last'.op \notin C23_Events]_vars

(***************************************************************************)
(* C23 (amended): cancellation is one case of the select, not checked      *)
(* before the others.  Shutdown is performed only when the run lifetime    *)
(* is cancelled, and once an iteration has performed shutdown no event     *)
(* is processed any more; an iteration that starts after the cancellation  *)
(* may still process a ready event.                                        *)
(***************************************************************************)
C23_ShutdownOnCancel ==
    [][/\ last'.op = "RunShutdown" => ctxDone
       /\ last.op = "RunShutdown" => last'.op \notin C23_Events]_vars

\* the lifetime was cancelled and, after ticks had been processed, an
\* iteration performed shutdown and Run returned
C23_Witness ==
    /\ last.op = "RunShutdown"
    /\ runPc = "returned"
    /\ ctxDone
    /\ now > 0

(***************************************************************************)
(* C24: a tick that finds a GoTo active clears it to Idle if and only if,  *)
(* at the position held when the tick begins, the horizontal distance to   *)
(* the target is <= 25 m and the absolute vertical error is <= 10 m; on    *)
(* that tick the desired velocity is zero on all axes, and on any other    *)
(* GoTo tick the same command stays active.                                *)
(***************************************************************************)
C24_Near(c, p) ==
    LET target == GeoToLocal(c.Lat, c.Lon, c.Alt)
    IN  /\ dist2D(Vec3(target.X - p.X, target.Y - p.Y, 0)) <= posTolM
        /\ Abs(target.Z - p.Z) <= altTolM

C24_GoToClearedIff ==
    last.op = "RunTick" /\ last.act.type = CmdGoTo =>
        /\ active = NoCmd <=> C24_Near(last.act, last.pos)
        /\ C24_Near(last.act, last.pos) => last.desired = Zero3
        /\ ~C24_Near(last.act, last.pos) => active = last.act

\* the tick that ends the flight to GoToEast (100 m east, 20 m above the
\* start): it began within both tolerances and cleared the command
C24_Witness ==
    /\ last.op = "RunTick" /\ last.act = GoToEast
    /\ active = NoCmd
    /\ last.desired = Zero3
    /\ last.pos.X >= 100 - posTolM
    /\ last.pos.Z >= StartAlt + 20 - altTolM

(***************************************************************************)
(* C25 (as stated): with any environment chain configured, Terrain         *)
(* included, the velocity reported after a tick differs from the velocity  *)
(* before that tick by at most 12*dt on each horizontal axis and at most   *)
(* 5*dt on the vertical axis.                                              *)
(***************************************************************************)
C25_CappedUnderTerrain ==
    last.op = "RunTick" =>
        /\ Abs(last.st.Vx - last.vel.X) <= maxHorizAccel * last.dt
        /\ Abs(last.st.Vy - last.vel.Y) <= maxHorizAccel * last.dt
        /\ Abs(last.st.Vz - last.vel.Z) <= maxVertAccel * last.dt

\* s lies between cur and des, and at most step away from cur
C25_Toward(cur, s, des, step) ==
    /\ \/ cur <= s /\ s <= des
       \/ des <= s /\ s <= cur
    /\ Abs(s - cur) <= step

(***************************************************************************)
(* C25 (amended): the velocity reported after a tick differs from the      *)
(* velocity before that tick by at most 12*dt on each horizontal axis and  *)
(* lies between the old value and the desired one (no overshoot), with     *)
(* any chain of Wind and Terrain; the same holds on the vertical axis      *)
(* with 5*dt, except on a tick where Terrain clamps (the snapshot carries  *)
(* the terrain warning), which may set the vertical velocity to zero at    *)
(* once.                                                                   *)
(***************************************************************************)
C25_AccelCapped ==
    last.op = "RunTick" =>
        /\ C25_Toward(last.vel.X, last.st.Vx, last.desired.X,
                      maxHorizAccel * last.dt)
        /\ C25_Toward(last.vel.Y, last.st.Vy, last.desired.Y,
                      maxHorizAccel * last.dt)
        /\ \/ C25_Toward(last.vel.Z, last.st.Vz, last.desired.Z,
                         maxVertAccel * last.dt)
           \/ last.st.Warning = TerrainWarning /\ last.st.Vz = 0
        /\ vel = Vec3(last.st.Vx, last.st.Vy, last.st.Vz)

\* a tick under a chain with Terrain on which both limits bind: the
\* horizontal and the vertical velocity move by the full step and stay
\* short of the desired values
C25_Witness ==
    /\ last.op = "RunTick"
    /\ \E i \in 1..Len(environment) : environment[i].kind = "terrain"
    /\ last.st.Vx = last.vel.X + maxHorizAccel * last.dt
    /\ last.st.Vx < last.desired.X
    /\ last.st.Vz = last.vel.Z - maxVertAccel * last.dt
    /\ last.st.Vz > last.desired.Z

(***************************************************************************)
(* C26 (as stated): the trajectory cursor is cleared together with the     *)
(* active command: whenever there is no active command the waypoint list   *)
(* is empty and the index is 0, and a tick's snapshot has a non-zero       *)
(* targetIndex only while a trajectory is active.                          *)
(***************************************************************************)
C26_CursorClearedWithActive ==
    /\ active = NoCmd => traj = <<>> /\ trajIdx = 0
    /\ last.op = "RunTick" /\ last.st.TargetIndex # 0
       => last.st.ActiveCommand = CmdTrajectory

\* the cursor as the completion of a non-looping trajectory leaves it
C26_Completed ==
    /\ active = NoCmd
    /\ traj # <<>> /\ trajIdx = Len(traj) /\ ~trajLoop

(***************************************************************************)
(* C26 (amended): when the active command has been cleared by GoTo         *)
(* arrival, by Stop or by an invalid index, the waypoint list is empty and *)
(* targetIndex reads 0; the completion of a non-looping trajectory clears  *)
(* the active command but keeps the waypoint list and leaves the index at  *)
(* the number of waypoints, until the next Stop, Hold, GoTo or Trajectory  *)
(* command; so targetIndex is non-zero only while a trajectory is active   *)
(* or after such a completion.                                             *)
(***************************************************************************)
C26_CursorAfterClear ==
    /\ active.type # CmdTrajectory =>
          \/ traj = <<>> /\ trajIdx = 0
          \/ C26_Completed
    /\ last.op = "RunCmd" /\ last.cmd.type \in {CmdStop, CmdHold, CmdGoTo}
       => traj = <<>> /\ trajIdx = 0
    /\ last.op = "RunTick" /\ last.act.type = CmdGoTo
       => traj = <<>> /\ trajIdx = 0
    /\ last.op = "RunTick" /\ last.act.type = CmdTrajectory /\ active = NoCmd
       => IF C14_BadIndex(traj, last.fromIdx)
          THEN traj = <<>> /\ trajIdx = 0
          ELSE C26_Completed /\ last.fromIdx = Len(traj) - 1
    /\ last.op = "RunTick" => last.st.TargetIndex = trajIdx

\* the tick that completes the two-waypoint non-looping trajectory: its
\* snapshot reports no active command and targetIndex 2
C26_Witness ==
    /\ last.op = "RunTick" /\ last.act.type = CmdTrajectory
    /\ C26_Completed
    /\ last.st.TargetIndex = 2 /\ last.st.ActiveCommand = ""

(***************************************************************************)
(* C27: for GoTo and for each trajectory waypoint the speed that scales    *)
(* the horizontal desired velocity is the commanded speed when positive    *)
(* and 80 m/s when zero or negative; the desired horizontal velocity is    *)
(* zero when the horizontal distance is <= 25 m (and points at the target  *)
(* with that speed otherwise), and the desired vertical velocity is +8,    *)
(* -8 or 0 according to whether the vertical error is > 10 m, < -10 m or   *)
(* within 10 m.                                                            *)
(***************************************************************************)
C27_Speed(c) == IF c.Speed > 0 THEN c.Speed ELSE 80

\* d is the desired velocity the claim gives for target c from position p
C27_Desired(c, p, d) ==
    LET target == GeoToLocal(c.Lat, c.Lon, c.Alt)
        dx == target.X - p.X
        dy == target.Y - p.Y
        dz == target.Z - p.Z
    IN  /\ dist2D(Vec3(dx, dy, 0)) <= 25 => d.X = 0 /\ d.Y = 0
        /\ dist2D(Vec3(dx, dy, 0)) > 25 =>
              /\ dist2D(Vec3(d.X, d.Y, 0)) = C27_Speed(c)
              /\ d.X * dx >= 0 /\ d.Y * dy >= 0
              /\ d.X * dy = d.Y * dx
        /\ d.Z = IF dz > 10 THEN 8 ELSE IF dz < -10 THEN -8 ELSE 0

C27_DesiredVelocity ==
    /\ last.op = "RunTick" /\ last.act.type = CmdGoTo
       => C27_Desired(last.act, last.pos, last.desired)
    /\ /\ last.op = "RunTick" /\ last.act.type = CmdTrajectory
       /\ ~C14_BadIndex(traj, last.fromIdx)
       => C27_Desired(traj[last.fromIdx + 1], last.pos, last.desired)

\* a tick flying back to the second waypoint, whose speed is negative,
\* from more than 25 m east of it: the desired velocity is 80 m/s west
C27_Witness ==
    /\ last.op = "RunTick" /\ last.act.type = CmdTrajectory
    /\ last.fromIdx = 1 /\ traj[2].Speed < 0
    /\ last.pos.X > 25
    /\ last.desired = Vec3(-80, 0, 0)

(***************************************************************************)
(* C28: in every interleaving of Subscribe, unsubscribe (repeated calls of *)
(* the same handle included), ticks and shutdown, the actor never closes   *)
(* a closed channel and never sends on one (no panic): while the loop runs *)
(* every member of the subscriber set is open, the actor closes a channel  *)
(* only as it removes it from the set or at shutdown, and a tick changes   *)
(* the buffers of members only.                                            *)
(***************************************************************************)
C28_NoDoubleCloseNoSendOnClosed ==
    /\ runPc # "panicked"
    /\ \A c \in subs : chClosed[c] => runPc = "returned"
    /\ \A c \in Chans :
          chClosed[c] =>
              \/ subPc[c] = "cancelled" /\ c \notin subs
              \/ subPc[c] = "open" /\ unsubCalled[c] /\ c \notin subs
              \/ subPc[c] = "open" /\ runPc = "returned" /\ c \in subs
    /\ last.op = "RunTick" =>
          \A c \in Chans \ subs : chBuf[c] = last.bufs[c]
    /\ last.op = "RunUnsub" =>
          IF last.member THEN chClosed[last.ch] /\ last.ch \notin subs
          ELSE runPc = "running"

\* the same handle called again after its channel was removed and closed:
\* the actor takes the second request and leaves the closed channel alone
C28_Witness ==
    /\ last.op = "RunUnsub" /\ ~last.member
    /\ chClosed[last.ch] /\ runPc = "running"

(***************************************************************************)
(* C29: the actor loop never waits inside an event handler.  The reply to  *)
(* a state request is written on the request's own channel of capacity 1,  *)
(* also when the caller has given up on its deadline; the first snapshot   *)
(* of a subscription goes into the new, empty channel; a broadcast skips   *)
(* a full channel.  After an abandoned GetState and with a subscriber that *)
(* never reads, the loop is still running and serves later events.         *)
(***************************************************************************)
C29_NeverBlocksInHandler ==
    /\ runPc \in {"init", "running"}
    /\ last.op = "RunStateReq" => Len(reply[last.r]) = 1
    /\ last.op = "RunSubscribe" => Len(chBuf[last.ch]) = 1
    /\ last.op = "RunTick" =>
          \A c \in subs :
              chBuf[c] = IF Len(last.bufs[c]) < SubCap
                         THEN Append(last.bufs[c], last.st)
                         ELSE last.bufs[c]
    /\ \A r \in Reqs : Len(reply[r]) <= 1

\* the caller of the first GetState gave up before the actor answered and
\* the subscriber's channel is full; the actor answered the abandoned
\* request all the same and now answers the second one
C29_Witness ==
    /\ last.op = "RunStateReq" /\ last.r = 2
    /\ gsPc[1] = "err" /\ reply[1] # <<>>
    /\ Len(chBuf[1]) = SubCap
    /\ runPc = "running"

(***************************************************************************)
(* C30: when the actor registers a subscriber it places a snapshot of the  *)
(* current state, with no warning, on the subscriber's (empty) channel;    *)
(* after that only ticks add frames, each tick at most one per subscriber  *)
(* and at the end of the queue, and only the consumer removes frames, from *)
(* the front.  So the first frame received is the state at registration,   *)
(* and the frames after it are tick snapshots in tick order: timestamps    *)
(* never decrease along a channel nor from a received frame to the frames  *)
(* still queued, and no tick is delivered twice.                           *)
(***************************************************************************)
C30_Ordered(q) ==
    \A i, j \in 1..Len(q) : i <= j => q[i].TS <= q[j].TS

C30_Frames ==
    /\ last.op = "RunSubscribe" =>
          /\ chBuf[last.ch] = <<snapshotNow>>
          /\ snapshotNow.Warning = NoWarning /\ snapshotNow.TS = now
          /\ last.ch \in subs
    /\ last.op = "RunTick" =>
          /\ last.st.TS = now
          /\ \A c \in subs :
                chBuf[c] = IF Len(last.bufs[c]) < SubCap
                           THEN Append(last.bufs[c], last.st)
                           ELSE last.bufs[c]
    /\ last.op = "Recv" =>
          \A i \in 1..Len(chBuf[last.ch]) : last.st.TS <= chBuf[last.ch][i].TS
    /\ \A c \in Chans :
          /\ C30_Ordered(chBuf[c])
          /\ \A i \in 1..Len(chBuf[c]) : chBuf[c][i].TS <= now

C30_Step ==
    \A c \in Chans :
        chBuf'[c] # chBuf[c] =>
            \/ /\ last'.op = "RunSubscribe" /\ last'.ch = c
               /\ chBuf[c] = <<>>
            \/ /\ last'.op = "RunTick" /\ c \in subs
               /\ chBuf'[c] = Append(chBuf[c], last'.st)
            \/ /\ last'.op = "Recv" /\ last'.ch = c
               /\ last'.st = Head(chBuf[c]) /\ chBuf'[c] = Tail(chBuf[c])

C30_FirstFrameThenTicks == []C30_Frames /\ [][C30_Step]_vars

\* the subscriber's queue holds the registration snapshot, taken at time 0,
\* and behind it the snapshot of a tick at time 1
C30_Witness ==
    /\ last.op = "RunTick" /\ 1 \in subs
    /\ Len(chBuf[1]) = 2
    /\ chBuf[1][1].TS = 0 /\ chBuf[1][2] = last.st /\ last.st.TS = 1

(***************************************************************************)
(* C31: in every reachable state the vertical velocity satisfies           *)
(* |vz| <= 8 m/s and each horizontal component |vx|, |vy| is at most the   *)
(* largest effective speed (commanded, or the 80 m/s default) of any GoTo  *)
(* or waypoint processed so far, under every sequence of commands and      *)
(* ticks and under Wind, Terrain or both; the snapshots report velocities  *)
(* within the same bounds.                                                 *)
(***************************************************************************)
C31_Within(v, top) ==
    Abs(v.X) <= top /\ Abs(v.Y) <= top /\ Abs(v.Z) <= 8

C31_VelocityBounds ==
    /\ C31_Within(vel, topSpeed)
    /\ last.op = "RunTick" =>
          C31_Within(Vec3(last.st.Vx, last.st.Vy, last.st.Vz), topSpeed)

\* under a chain with Terrain, on the flight east and down at 50 m/s: the
\* aircraft descends at the full 8 m/s while it flies east, and no tick had
\* steered to a target before this flight
C31_Witness ==
    /\ last.op = "RunTick"
    /\ \E i \in 1..Len(environment) : environment[i].kind = "terrain"
    /\ topSpeed = 50
    /\ vel.Z = -8
    /\ vel.X > 0

====
